---- MODULE Spec2Model ----
(***************************************************************************)
(* Coin Refill (src/index.ts, version 1.1.0): the x402-gated POST /refill  *)
(* handler, GET /quote, and verifyAndBroadcastPayment.                     *)
(*                                                                         *)
(* JavaScript numbers are IEEE-754 doubles.  The quantities of the service *)
(* (a cost of up to 2 * 10^12 micro-STX, a payment amount of up to 2^64-1) *)
(* exceed the integers of the model checker, so naturals are kept as four  *)
(* limbs of 20 bits, least significant first, and the double division and  *)
(* the bigint -> double conversion are computed bit by bit with            *)
(* round-to-nearest-even, as the hardware does.                            *)
(***************************************************************************)
EXTENDS Integers, Sequences, FiniteSets, TLC

----------------------------------------------------------------------------
(* Multi-limb naturals *)

Base == 2^20

BigZero == <<0, 0, 0, 0>>

BigOfInt(n) == <<n % Base, n \div Base, 0, 0>>

BigOne == BigOfInt(1)

\* x * k + c, for k <= 2^10 and c < Base
BigMulAdd(x, k, c) ==
  LET t1 == x[1] * k + c
      t2 == x[2] * k + (t1 \div Base)
      t3 == x[3] * k + (t2 \div Base)
      t4 == x[4] * k + (t3 \div Base)
  IN  <<t1 % Base, t2 % Base, t3 % Base, t4 % Base>>

BigAdd(x, y) ==
  LET t1 == x[1] + y[1]
      t2 == x[2] + y[2] + (t1 \div Base)
      t3 == x[3] + y[3] + (t2 \div Base)
      t4 == x[4] + y[4] + (t3 \div Base)
  IN  <<t1 % Base, t2 % Base, t3 % Base, t4 % Base>>

\* x - y, for x >= y
BigSub(x, y) ==
  LET d1 == x[1] - y[1]
      b1 == IF d1 < 0 THEN 1 ELSE 0
      d2 == x[2] - y[2] - b1
      b2 == IF d2 < 0 THEN 1 ELSE 0
      d3 == x[3] - y[3] - b2
      b3 == IF d3 < 0 THEN 1 ELSE 0
      d4 == x[4] - y[4] - b3
  IN  <<d1 + b1 * Base, d2 + b2 * Base, d3 + b3 * Base, d4>>

BigLt(x, y) ==
  \/ x[4] < y[4]
  \/ x[4] = y[4] /\ x[3] < y[3]
  \/ x[4] = y[4] /\ x[3] = y[3] /\ x[2] < y[2]
  \/ x[4] = y[4] /\ x[3] = y[3] /\ x[2] = y[2] /\ x[1] < y[1]

BigLe(x, y) == ~BigLt(y, x)

BigOdd(x) == x[1] % 2 = 1

BigShl1(x) == BigMulAdd(x, 2, 0)

BigShr1(x) ==
  LET H == Base \div 2
  IN  <<(x[1] \div 2) + (x[2] % 2) * H,
        (x[2] \div 2) + (x[3] % 2) * H,
        (x[3] \div 2) + (x[4] % 2) * H,
        x[4] \div 2>>

\* quotient and remainder of x by d, for 0 < d <= 2^10
BigDivSmall(x, d) ==
  LET q4 == x[4] \div d
      t3 == (x[4] % d) * Base + x[3]
      t2 == (t3 % d) * Base + x[2]
      t1 == (t2 % d) * Base + x[1]
  IN  [q |-> <<t1 \div d, t2 \div d, t3 \div d, q4>>, r |-> t1 % d]

\* x * n, for 0 <= n < 2^31
BigMulInt(x, n) ==
  LET K == 2^10
      H(acc, d) == BigAdd(BigMulAdd(acc, K, 0), BigMulAdd(x, d, 0))
  IN  H(H(H(BigMulAdd(x, n \div (K * K * K), 0),
            (n \div (K * K)) % K),
          (n \div K) % K),
        n % K)

\* 2^52 and 2^53: a double holds 53 significant bits
Two52 == <<0, 0, 2^12, 0>>
Two53 == <<0, 0, 2^13, 0>>

----------------------------------------------------------------------------
(* IEEE-754 doubles.  A finite positive double is [m, e], the value        *)
(* m * 2^(-e) with m < 2^53 (m = 2^53 after a rounding carry).             *)

\* one bit of the quotient n / d: the state is the quotient so far, the
\* remainder and the number of bits taken; at 53 bits the state stays
DivStep(s, d) ==
  IF ~BigLt(s.q, Two52)
  THEN s
  ELSE LET R2 == BigShl1(s.r)
           ge == ~BigLt(R2, d)
       IN  [q |-> BigMulAdd(s.q, 2, IF ge THEN 1 ELSE 0),
            r |-> IF ge THEN BigSub(R2, d) ELSE R2,
            k |-> s.k + 1]

\* the quotient's bits until it holds 53 of them (four bits per unfolding)
RECURSIVE DivLoop(_, _)
DivLoop(s, d) ==
  IF ~BigLt(s.q, Two52)
  THEN s
  ELSE DivLoop(DivStep(DivStep(DivStep(DivStep(s, d), d), d), d), d)

\* the double nearest to n / d (ties to even), for 0 < n < d
RoundDiv(n, d) ==
  LET p  == DivLoop([q |-> BigZero, r |-> n, k |-> 0], d)
      R2 == BigShl1(p.r)
      rb == ~BigLt(R2, d)
      R3 == IF rb THEN BigSub(R2, d) ELSE R2
      up == rb /\ (R3 # BigZero \/ BigOdd(p.q))
  IN  [m |-> IF up THEN BigAdd(p.q, BigOne) ELSE p.q, e |-> p.k]

\* a decimal literal num/den of the source, as the double the engine reads
Literal(num, den) == RoundDiv(BigOfInt(num), BigOfInt(den))

\* the double a / r for an integer 0 < a < 2^31 and a double r
DoubleDiv(a, r) ==
  LET q == RoundDiv(BigOfInt(a), r.m)
  IN  [m |-> q.m, e |-> q.e - r.e]

\* m / 2^s rounded up to a natural, ten bits at a time
RECURSIVE CeilShift(_, _, _)
CeilShift(m, s, lost) ==
  IF s <= 0
  THEN IF lost THEN BigAdd(m, BigOne) ELSE m
  ELSE IF s >= 10
       THEN LET p == BigDivSmall(m, 2^10)
            IN  CeilShift(p.q, s - 10, lost \/ p.r # 0)
       ELSE CeilShift(BigShr1(m), s - 1, lost \/ BigOdd(m))

\* Math.ceil of a double below 2^53, as a natural
MathCeil(x) == CeilShift(x.m, x.e, FALSE)

\* Number(x) for a bigint x: the nearest double (ties to even), as a natural
RECURSIVE Round53(_, _, _, _)
Round53(x, j, rb, sticky) ==
  IF BigLt(x, Two53)
  THEN [m |-> IF rb /\ (sticky \/ BigOdd(x)) THEN BigAdd(x, BigOne) ELSE x,
        j |-> j]
  ELSE Round53(BigShr1(x), j + 1, BigOdd(x), sticky \/ rb)

RECURSIVE BigShl(_, _)
BigShl(x, j) == IF j = 0 THEN x ELSE BigShl(BigShl1(x), j - 1)

BigToNumber(x) ==
  LET p == Round53(x, 0, FALSE, FALSE)
  IN  BigShl(p.m, p.j)

----------------------------------------------------------------------------
(* JavaScript numbers as the handlers hold them: NaN or a finite value.    *)
(* A parsed amount carries an integer, a cost carries a multi-limb natural *)

NaN == [nan |-> TRUE, v |-> 0]
Int32(n) == [nan |-> FALSE, v |-> n]

BigNaN == [nan |-> TRUE, v |-> BigZero]
BigNum(x) == [nan |-> FALSE, v |-> x]

\* a < n and a > n of JavaScript: false when a is NaN
NumLt(a, n) == ~a.nan /\ a.v < n
NumGt(a, n) == ~a.nan /\ a.v > n

\* x < c of JavaScript for a finite x and a cost c: false when c is NaN
BigNumLt(x, c) == ~c.nan /\ BigLt(x, c.v)

----------------------------------------------------------------------------
(* Text the handlers process is a sequence of one-character strings; text  *)
(* they only pass on is a string.                                          *)

Lower == <<"a", "b", "c", "d", "e", "f", "g", "h", "i", "j", "k", "l", "m",
           "n", "o", "p", "q", "r", "s", "t", "u", "v", "w", "x", "y", "z">>
Upper == <<"A", "B", "C", "D", "E", "F", "G", "H", "I", "J", "K", "L", "M",
           "N", "O", "P", "Q", "R", "S", "T", "U", "V", "W", "X", "Y", "Z">>
Digits == <<"0", "1", "2", "3", "4", "5", "6", "7", "8", "9">>

UpperChar(c) ==
  IF \E i \in DOMAIN Lower : Lower[i] = c
  THEN Upper[CHOOSE i \in DOMAIN Lower : Lower[i] = c]
  ELSE c

\* String.prototype.toUpperCase
ToUpperCase(s) == [i \in DOMAIN s |-> UpperChar(s[i])]

IsDigit(c) == \E i \in DOMAIN Digits : Digits[i] = c
DigitVal(c) == (CHOOSE i \in DOMAIN Digits : Digits[i] = c) - 1

\* the value of the longest prefix of digits of s from position i on
RECURSIVE ParseDigits(_, _, _)
ParseDigits(s, i, acc) ==
  IF i > Len(s) \/ ~IsDigit(s[i])
  THEN acc
  ELSE ParseDigits(s, i + 1, acc * 10 + DigitVal(s[i]))

\* parseInt(s): an optional sign, then the longest prefix of digits; NaN
\* when there is none
ParseInt(s) ==
  LET neg   == Len(s) > 0 /\ s[1] = "-"
      first == IF neg THEN 2 ELSE 1
  IN  IF first > Len(s) \/ ~IsDigit(s[first])
      THEN NaN
      ELSE LET n == ParseDigits(s, first, 0)
           IN  Int32(IF neg THEN 0 - n ELSE n)

\* Number.prototype.toString of a natural: its decimal digits
RECURSIVE BigToString(_)
BigToString(x) ==
  LET p == BigDivSmall(x, 10)
  IN  IF p.q = BigZero
      THEN <<Digits[p.r + 1]>>
      ELSE Append(BigToString(p.q), Digits[p.r + 1])

NumToString(c) == IF c.nan THEN <<"N", "a", "N">> ELSE BigToString(c.v)

\* String.prototype.replace(/-/g, "")
RECURSIVE RemoveHyphens(_)
RemoveHyphens(s) ==
  IF s = <<>> THEN <<>>
  ELSE IF Head(s) = "-" THEN RemoveHyphens(Tail(s))
       ELSE <<Head(s)>> \o RemoveHyphens(Tail(s))

----------------------------------------------------------------------------
(* The pricing table *)

SymSTX  == <<"S", "T", "X">>
SymSBTC == <<"S", "B", "T", "C">>
SymUSDC == <<"U", "S", "D", "C">>

\* rate is the decimal literal of the source, num / den
SUPPORTED_TOKENS ==
  (SymSTX :> [name |-> "Stacks", rate |-> [num |-> 95, den |-> 100],
              minAmount |-> 1000000, maxAmount |-> 100000000])
  @@ (SymSBTC :> [name |-> "sBTC", rate |-> [num |-> 5, den |-> 1000000],
                  minAmount |-> 1000, maxAmount |-> 10000000])
  @@ (SymUSDC :> [name |-> "USDC", rate |-> [num |-> 5, den |-> 10],
                  minAmount |-> 100000, maxAmount |-> 50000000])

\* Object.keys(SUPPORTED_TOKENS), in insertion order
TokenKeys == <<SymSTX, SymSBTC, SymUSDC>>

\* SUPPORTED_TOKENS[token] is defined
Supported(token) == token \in DOMAIN SUPPORTED_TOKENS

\* the default of a missing (or falsy) token and amount
DefaultToken  == SymSTX
DefaultAmount == <<"1", "0", "0", "0", "0", "0", "0">>

\* the token taken as given, with no upper-casing
TokenAsGiven(raw) == IF raw = <<>> THEN DefaultToken ELSE raw

\* (x || "STX").toUpperCase()
TokenOf(raw) == ToUpperCase(IF raw = <<>> THEN DefaultToken ELSE raw)

\* parseInt(x || "1000000")
AmountOf(raw) == ParseInt(IF raw = <<>> THEN DefaultAmount ELSE raw)

\* the cost with Math.floor in place of Math.ceil
StxCostFloor(amount, tokenInfo) ==
  IF amount.nan
  THEN BigNaN
  ELSE LET x == DoubleDiv(amount.v,
                          Literal(tokenInfo.rate.num, tokenInfo.rate.den))
       IN  BigNum(BigSub(CeilShift(x.m, x.e, TRUE), BigOne))

\* Math.ceil(amount / tokenInfo.rate)
StxCost(amount, tokenInfo) ==
  IF amount.nan
  THEN BigNaN
  ELSE BigNum(MathCeil(DoubleDiv(amount.v,
                                 Literal(tokenInfo.rate.num, tokenInfo.rate.den))))

----------------------------------------------------------------------------
(* Requests, transactions, the ledger's answers *)

\* the most challenges the model lets the service issue
MaxChallenges == 2

\* the slots of the handler instances; Spec serves one request at a time
Slots == {1}

PayAddr   == "SP2PAYMENTADDRESS"
OtherAddr == "SP3SOMEONEELSE"

\* recipients of a request body: none, a well-formed address, a malformed one
GoodRecipient == "SP1REFILLRECIPIENT"
BadRecipient  == "not-an-address"
RecipientInputs == {"", GoodRecipient, BadRecipient}

\* the ledger's address-format predicate, on the recipients of the model
WellFormedAddress(a) == a \in {GoodRecipient, PayAddr, OtherAddr}

\* the decimal digits of a natural below 2^31, to write the inputs with
RECURSIVE Str(_)
Str(n) == IF n < 10 THEN <<Digits[n + 1]>>
          ELSE Append(Str(n \div 10), Digits[(n % 10) + 1])

TokenInputs ==
  { <<>>, <<"s", "t", "x">>, SymSTX, <<"s", "B", "t", "C">>, SymSBTC,
    <<"u", "s", "d", "c">>, <<"d", "o", "g", "e">>, <<"D", "O", "G", "E">> }

\* every bound of the table, one unit inside and outside, and amounts that
\* are and are not multiples of 19
BoundaryAmounts ==
  UNION { { SUPPORTED_TOKENS[t].minAmount - 1, SUPPORTED_TOKENS[t].minAmount,
            SUPPORTED_TOKENS[t].maxAmount, SUPPORTED_TOKENS[t].maxAmount + 1 }
          : t \in DOMAIN SUPPORTED_TOKENS }

AmountInputs ==
  { <<>>, <<"a", "b", "c">>, <<"-", "5">>, Str(1900000) \o <<".", "9">> }
  \cup { Str(n) : n \in BoundaryAmounts \cup {1000001} }

RequestInputs ==
  [ route : {"GET /quote"}, token : TokenInputs, amount : AmountInputs,
    recipient : {""}, header : {FALSE} ]
  \cup
  [ route : {"POST /refill"}, token : TokenInputs, amount : AmountInputs,
    recipient : RecipientInputs, header : BOOLEAN ]

NoInput == [route |-> "", token |-> <<>>, amount |-> <<>>, recipient |-> "",
            header |-> FALSE]

\* what deserializeTransaction makes of the payment header: it throws
\* (parsed = FALSE) or yields a transaction with a payload
NoTx == [parsed |-> FALSE, payloadType |-> 0, recipient |-> "",
         amount |-> BigZero]

U64Max == <<Base - 1, Base - 1, Base - 1, 2^4 - 1>>

\* amounts a payer may have signed, around the cost asked of them
TxAmounts(cost) ==
  IF cost.nan
  THEN {BigOne, U64Max}
  ELSE { BigSub(cost.v, BigOne), cost.v, BigAdd(cost.v, BigOne),
         BigAdd(Two53, BigOne), U64Max }

\* payload type 0 is a token transfer, 2 a contract call
TxInputs(cost) ==
  {NoTx} \cup
  [ parsed : {TRUE}, payloadType : {0, 2},
    recipient : {"", PayAddr, OtherAddr}, amount : TxAmounts(cost) ]

\* what broadcastTransaction comes back with: {txid}, {error}, or it throws
LedgerOutcomes ==
  { [kind |-> "ok", txid |-> "0xpaymenttxid", error |-> ""],
    [kind |-> "error", txid |-> "", error |-> "transaction rejected"],
    [kind |-> "throw", txid |-> "", error |-> "fetch failed"] }

\* line 171: a challenge expires 5 * 60 * 1000 ms after it is issued
ExpiryMinutes == 5

\* what crypto.randomUUID may return
UUIDs == { <<"a", "1", "-", "b", "2">>, <<"c", "3", "-", "d", "4">> }

----------------------------------------------------------------------------
(* verifyAndBroadcastPayment.  It runs to its one suspension point, the    *)
(* broadcast, and resumes with the ledger's answer.                        *)

\* a rejection that also carries a txid property
RejectedWithTxid(error) ==
  [success |-> FALSE, keys |-> {"success", "error", "txid"}, txid |-> "",
   error |-> error, amount |-> BigZero]

Rejected(error) ==
  [success |-> FALSE, keys |-> {"success", "error"}, txid |-> "",
   error |-> error, amount |-> BigZero]

Accepted(txid, amount) ==
  [success |-> TRUE, keys |-> {"success", "txid", "amount"}, txid |-> txid,
   error |-> "", amount |-> amount]

\* verifyAndBroadcastPayment with the amount check written amount <= minAmount
VerifyRejectsExactAmount(tx, expectedRecipient, minAmount) ==
  IF ~tx.parsed
  THEN [done |-> TRUE, result |-> Rejected("Payment verification failed")]
  ELSE IF tx.payloadType # 0
  THEN [done |-> TRUE, result |-> Rejected("Transaction is not a STX transfer")]
  ELSE IF tx.recipient = ""
  THEN [done |-> TRUE, result |-> Rejected("Could not parse recipient address")]
  ELSE IF ~minAmount.nan /\ BigLe(BigToNumber(tx.amount), minAmount.v)
  THEN [done |-> TRUE, result |-> Rejected("Insufficient payment")]
  ELSE [done |-> FALSE, result |-> Rejected("")]

\* verifyAndBroadcastPayment without the payload type check of line 31
VerifySkipsPayloadType(tx, expectedRecipient, minAmount) ==
  IF ~tx.parsed
  THEN [done |-> TRUE, result |-> Rejected("Payment verification failed")]
  ELSE IF tx.recipient = ""
  THEN [done |-> TRUE, result |-> Rejected("Could not parse recipient address")]
  ELSE IF BigNumLt(BigToNumber(tx.amount), minAmount)
  THEN [done |-> TRUE, result |-> Rejected("Insufficient payment")]
  ELSE [done |-> FALSE, result |-> Rejected("")]

\* lines 26-58: [done |-> TRUE, result] when it returns without a
\* broadcast, [done |-> FALSE] when it submits tx to the ledger
VerifyBeforeBroadcast(tx, expectedRecipient, minAmount) ==
  IF ~tx.parsed
  THEN [done |-> TRUE, result |-> Rejected("Payment verification failed")]
  ELSE IF tx.payloadType # 0
  THEN [done |-> TRUE, result |-> Rejected("Transaction is not a STX transfer")]
  ELSE IF tx.recipient = ""
  THEN [done |-> TRUE, result |-> Rejected("Could not parse recipient address")]
  ELSE IF BigNumLt(BigToNumber(tx.amount), minAmount)
  THEN [done |-> TRUE, result |-> Rejected("Insufficient payment")]
  ELSE [done |-> FALSE, result |-> Rejected("")]

\* lines 60-67 without the "error" in broadcastResult test of line 60
VerifyIgnoresLedgerError(tx, outcome) ==
  IF outcome.kind = "throw"
  THEN Rejected("Payment verification failed")
  ELSE Accepted(outcome.txid, BigToNumber(tx.amount))

\* lines 60-67, with the ledger's answer to the broadcast
VerifyAfterBroadcast(tx, outcome) ==
  IF outcome.kind = "throw"
  THEN Rejected("Payment verification failed")
  ELSE IF outcome.kind = "error"
  THEN Rejected("Broadcast failed")
  ELSE Accepted(outcome.txid, BigToNumber(tx.amount))

----------------------------------------------------------------------------
(* Responses: the HTTP status and the JSON body (keys: its properties)     *)

NoResp ==
  [status |-> 0, keys |-> {}, error |-> "", details |-> "", supported |-> <<>>,
   maxAmountRequired |-> <<>>, nonce |-> <<>>, payTo |-> "", token |-> <<>>,
   requestedAmount |-> NaN, stxCost |-> BigNaN, feePercent |-> 0,
   recipient |-> "", success |-> FALSE, refillId |-> <<>>, txid |-> "",
   amount |-> BigZero, expiresAt |-> 0]

BadRequest(error) ==
  [NoResp EXCEPT !.status = 400, !.keys = {"error"}, !.error = error]

UnsupportedToken ==
  [NoResp EXCEPT !.status = 400, !.keys = {"error", "supported"},
                 !.error = "Unsupported token", !.supported = TokenKeys]

\* lines 125-132
QuoteBody(token, amount, stxCost) ==
  [NoResp EXCEPT !.status = 200,
                 !.keys = {"token", "tokenName", "requestedAmount", "stxCost",
                           "rate", "feePercent"},
                 !.token = token, !.requestedAmount = amount,
                 !.stxCost = stxCost,
                 !.feePercent = IF token = SymSTX THEN 5 ELSE 2]

\* the challenge asking for the requested amount instead of its cost
ChallengeAsksAmount(token, amount, stxCost, recipient, payTo, uuid, date) ==
  [NoResp EXCEPT !.status = 402,
                 !.keys = {"maxAmountRequired", "resource", "payTo", "network",
                           "nonce", "expiresAt", "tokenType", "quote"},
                 !.maxAmountRequired =
                    IF amount.nan THEN NumToString(BigNaN)
                    ELSE BigToString(BigOfInt(amount.v)),
                 !.payTo = payTo, !.nonce = RemoveHyphens(uuid),
                 !.expiresAt = date + ExpiryMinutes,
                 !.token = token, !.requestedAmount = amount,
                 !.stxCost = stxCost, !.recipient = recipient]

\* lines 163-179; date is Date.now(), in minutes
Challenge(token, amount, stxCost, recipient, payTo, uuid, date) ==
  [NoResp EXCEPT !.status = 402,
                 !.keys = {"maxAmountRequired", "resource", "payTo", "network",
                           "nonce", "expiresAt", "tokenType", "quote"},
                 !.maxAmountRequired = NumToString(stxCost),
                 !.payTo = payTo, !.nonce = RemoveHyphens(uuid),
                 !.expiresAt = date + ExpiryMinutes,
                 !.token = token, !.requestedAmount = amount,
                 !.stxCost = stxCost, !.recipient = recipient]

\* lines 190-193
PaymentFailed(details) ==
  [NoResp EXCEPT !.status = 402, !.keys = {"error", "details"},
                 !.error = "Payment verification failed", !.details = details]

\* lines 197-215
Queued(token, amount, recipient, paymentResult, uuid) ==
  [NoResp EXCEPT !.status = 200,
                 !.keys = {"success", "refillId", "status", "payment",
                           "details", "message"},
                 !.success = TRUE, !.refillId = uuid,
                 !.txid = paymentResult.txid, !.amount = paymentResult.amount,
                 !.token = token, !.requestedAmount = amount,
                 !.recipient = recipient]

----------------------------------------------------------------------------
(* The handlers' decisions *)

\* GET /quote with the upper bound written amount >= maxAmount
QuoteExclusiveMax(in) ==
  LET token  == TokenOf(in.token)
      amount == AmountOf(in.amount)
  IN  IF ~Supported(token)
      THEN UnsupportedToken
      ELSE LET tokenInfo == SUPPORTED_TOKENS[token]
           IN  IF NumLt(amount, tokenInfo.minAmount)
               THEN BadRequest("Minimum amount")
               ELSE IF ~amount.nan /\ amount.v >= tokenInfo.maxAmount
               THEN BadRequest("Maximum amount")
               ELSE QuoteBody(token, amount, StxCost(amount, tokenInfo))

\* GET /quote, lines 106-132
Quote(in) ==
  LET token  == TokenOf(in.token)
      amount == AmountOf(in.amount)
  IN  IF ~Supported(token)
      THEN UnsupportedToken
      ELSE LET tokenInfo == SUPPORTED_TOKENS[token]
           IN  IF NumLt(amount, tokenInfo.minAmount)
               THEN BadRequest("Minimum amount")
               ELSE IF NumGt(amount, tokenInfo.maxAmount)
               THEN BadRequest("Maximum amount")
               ELSE QuoteBody(token, amount, StxCost(amount, tokenInfo))

\* POST /refill, lines 139-157: the 400 response, or NoResp when the
\* request passes
RefillValidation(in) ==
  LET token  == TokenOf(in.token)
      amount == AmountOf(in.amount)
  IN  IF in.recipient = ""
      THEN BadRequest("recipient address required")
      ELSE IF ~Supported(token)
      THEN UnsupportedToken
      ELSE LET tokenInfo == SUPPORTED_TOKENS[token]
           IN  IF NumLt(amount, tokenInfo.minAmount)
                  \/ NumGt(amount, tokenInfo.maxAmount)
               THEN BadRequest("Amount must be between")
               ELSE NoResp

\* line 159, for a request that passed the validation
RefillCost(in) ==
  StxCost(AmountOf(in.amount), SUPPORTED_TOKENS[TokenOf(in.token)])

----------------------------------------------------------------------------
(* State *)

VARIABLES
  env,      \* the bindings of the deployment
  reqs,     \* per slot: the request in hand and the handler's position
  issued,   \* the nonces of the challenges sent so far, in order
  expiries, \* the expiresAt of those challenges, in the same order
  now       \* the clock (Date.now()), in minutes

vars == <<env, reqs, issued, expiries, now>>

\* the result slot of a request whose payment was not (yet) verified
NoResult ==
  [success |-> FALSE, keys |-> {}, txid |-> "", error |-> "",
   amount |-> BigZero]

\* at and prior record when the request came in and how many challenges
\* had been sent by then
Idle ==
  [pc |-> "idle", in |-> NoInput, cost |-> BigNaN, tx |-> NoTx, deser |-> 0,
   calls |-> <<>>, outcome |-> "", uuids |-> <<>>, result |-> NoResult,
   resp |-> NoResp, at |-> 0, prior |-> 0]

\* Env declares PAYMENT_ADDRESS alone; a deployment may or may not bind a
\* funding key beside it
Init ==
  /\ env \in [PAYMENT_ADDRESS : {PayAddr}, FUNDING_KEY : {"", "funding-key"}]
  /\ reqs = [r \in Slots |-> Idle]
  /\ issued = <<>>
  /\ expiries = <<>>
  /\ now = 0

\* a request comes in
Arrive(r) ==
  /\ reqs[r].pc = "idle"
  /\ Len(issued) < MaxChallenges
  /\ \E in \in RequestInputs :
       reqs' = [reqs EXCEPT ![r] = [Idle EXCEPT !.pc = "received", !.in = in,
                                                !.at = now,
                                                !.prior = Len(issued)]]
  /\ UNCHANGED <<env, issued, expiries, now>>

\* GET /quote, lines 105-133
HandleQuote(r) ==
  /\ reqs[r].pc = "received"
  /\ reqs[r].in.route = "GET /quote"
  /\ reqs' = [reqs EXCEPT ![r].pc = "responded", ![r].resp = Quote(reqs[r].in)]
  /\ UNCHANGED <<env, issued, expiries, now>>

\* lines 161-180: no payment, the 402 challenge
IssueChallenge(r, stxCost) ==
  \E uuid \in UUIDs :
    \E ch \in {Challenge(TokenOf(reqs[r].in.token), AmountOf(reqs[r].in.amount),
                          stxCost, reqs[r].in.recipient, env.PAYMENT_ADDRESS,
                          uuid, now)} :
      /\ reqs' = [reqs EXCEPT ![r].pc = "responded", ![r].cost = stxCost,
                              ![r].uuids = <<uuid>>, ![r].resp = ch]
      /\ issued' = Append(issued, ch.nonce)
      /\ expiries' = Append(expiries, ch.expiresAt)

\* the verification refusing a payment once a challenge sent earlier has
\* expired
StartVerificationEnforcesExpiry(r, stxCost) ==
  \E tx \in TxInputs(stxCost) :
    \E v \in {IF \E i \in DOMAIN expiries : expiries[i] < now
               THEN [done |-> TRUE, result |-> Rejected("Challenge expired")]
               ELSE VerifyBeforeBroadcast(tx, env.PAYMENT_ADDRESS, stxCost)} :
      /\ reqs' =
           [reqs EXCEPT
              ![r].cost = stxCost,
              ![r].tx = tx,
              ![r].deser = 1,
              ![r].pc = IF v.done THEN "responded" ELSE "broadcasting",
              ![r].calls = IF v.done THEN <<>>
                           ELSE <<[op |-> "broadcast", tx |-> tx]>>,
              ![r].result = IF v.done THEN v.result ELSE NoResult,
              ![r].resp = IF v.done THEN PaymentFailed(v.result.error)
                          ELSE NoResp]
      /\ UNCHANGED <<issued, expiries>>

\* the verification refusing a submission that another handler instance has
\* already handed to the ledger
StartVerificationIdempotent(r, stxCost) ==
  \E tx \in TxInputs(stxCost) :
    \E v \in {IF \E q \in DOMAIN reqs :
                    /\ q # r
                    /\ \E i \in DOMAIN reqs[q].calls : reqs[q].calls[i].tx = tx
               THEN [done |-> TRUE, result |-> Rejected("Duplicate payment")]
               ELSE VerifyBeforeBroadcast(tx, env.PAYMENT_ADDRESS, stxCost)} :
      /\ reqs' =
           [reqs EXCEPT
              ![r].cost = stxCost,
              ![r].tx = tx,
              ![r].deser = 1,
              ![r].pc = IF v.done THEN "responded" ELSE "broadcasting",
              ![r].calls = IF v.done THEN <<>>
                           ELSE <<[op |-> "broadcast", tx |-> tx]>>,
              ![r].result = IF v.done THEN v.result ELSE NoResult,
              ![r].resp = IF v.done THEN PaymentFailed(v.result.error)
                          ELSE NoResp]
      /\ UNCHANGED <<issued, expiries>>

\* lines 183-187 and 26-58: the payment header is deserialized and checked,
\* and the transaction is handed to the ledger
StartVerification(r, stxCost) ==
  \E tx \in TxInputs(stxCost) :
    \E v \in {VerifyBeforeBroadcast(tx, env.PAYMENT_ADDRESS, stxCost)} :
      /\ reqs' =
           [reqs EXCEPT
              ![r].cost = stxCost,
              ![r].tx = tx,
              ![r].deser = 1,
              ![r].pc = IF v.done THEN "responded" ELSE "broadcasting",
              ![r].calls = IF v.done THEN <<>>
                           ELSE <<[op |-> "broadcast", tx |-> tx]>>,
              ![r].result = IF v.done THEN v.result ELSE NoResult,
              ![r].resp = IF v.done THEN PaymentFailed(v.result.error)
                          ELSE NoResp]
      /\ UNCHANGED <<issued, expiries>>

\* POST /refill, lines 136-187, and verifyAndBroadcastPayment up to its
\* broadcast (lines 26-58)
HandleRefill(r) ==
  /\ reqs[r].pc = "received"
  /\ reqs[r].in.route = "POST /refill"
  /\ \E early \in {RefillValidation(reqs[r].in)} :
       IF early # NoResp
       THEN /\ reqs' = [reqs EXCEPT ![r].pc = "responded", ![r].resp = early]
            /\ UNCHANGED <<issued, expiries>>
       ELSE \E stxCost \in {RefillCost(reqs[r].in)} :
              IF ~reqs[r].in.header
              THEN IssueChallenge(r, stxCost)
              ELSE StartVerification(r, stxCost)
  /\ UNCHANGED <<env, now>>

\* the handler broadcasting the submission a second time after the ledger
\* refused or the call threw
BroadcastRetries(r) ==
  /\ reqs[r].pc = "broadcasting"
  /\ \E outcome \in LedgerOutcomes, uuid \in UUIDs :
       LET in            == reqs[r].in
           paymentResult == VerifyAfterBroadcast(reqs[r].tx, outcome)
           again         == ~paymentResult.success /\ Len(reqs[r].calls) < 2
       IN  reqs' =
             [reqs EXCEPT
                ![r].pc = IF again THEN "broadcasting" ELSE "responded",
                ![r].calls = IF again
                             THEN Append(@, [op |-> "broadcast",
                                             tx |-> reqs[r].tx])
                             ELSE @,
                ![r].outcome = outcome.kind,
                ![r].uuids = IF paymentResult.success THEN <<uuid>> ELSE <<>>,
                ![r].result = paymentResult,
                ![r].resp = IF again THEN NoResp
                            ELSE IF ~paymentResult.success
                            THEN PaymentFailed(paymentResult.error)
                            ELSE Queued(TokenOf(in.token), AmountOf(in.amount),
                                        in.recipient, paymentResult, uuid)]
  /\ UNCHANGED <<env, issued, expiries, now>>

\* the ledger answers the broadcast: lines 60-67, then lines 189-216
BroadcastReturn(r) ==
  /\ reqs[r].pc = "broadcasting"
  /\ \E outcome \in LedgerOutcomes, uuid \in UUIDs :
       LET in            == reqs[r].in
           paymentResult == VerifyAfterBroadcast(reqs[r].tx, outcome)
       IN  reqs' =
             [reqs EXCEPT
                ![r].pc = "responded",
                ![r].outcome = outcome.kind,
                ![r].uuids = IF paymentResult.success THEN <<uuid>> ELSE <<>>,
                ![r].result = paymentResult,
                ![r].resp = IF ~paymentResult.success
                            THEN PaymentFailed(paymentResult.error)
                            ELSE Queued(TokenOf(in.token), AmountOf(in.amount),
                                        in.recipient, paymentResult, uuid)]
  /\ UNCHANGED <<env, issued, expiries, now>>

\* the response is sent and the handler instance is gone
Close(r) ==
  /\ reqs[r].pc = "responded"
  /\ reqs' = [reqs EXCEPT ![r] = Idle]
  /\ UNCHANGED <<env, issued, expiries, now>>

Next ==
  \E r \in Slots :
    \/ Arrive(r)
    \/ HandleQuote(r)
    \/ HandleRefill(r)
    \/ BroadcastReturn(r)
    \/ Close(r)

Spec == Init /\ [][Next]_vars

----------------------------------------------------------------------------
(* Two handler instances at once, and a clock that moves.  The same        *)
(* handlers serve a smaller population of requests: refills of the default *)
(* asset, of two amounts, unpaid or paid with one and the same submission. *)

\* the most times the clock moves
MaxTicks == 1

Handlers == {1, 2}

\* the one submission of this population: a transfer to the payment address
\* of the cost of the default refill
SharedSubmission ==
  [parsed |-> TRUE, payloadType |-> 0, recipient |-> PayAddr,
   amount |-> StxCost(AmountOf(<<>>), SUPPORTED_TOKENS[DefaultToken]).v]

ConcurrentRequests ==
  [ route : {"POST /refill"}, token : {<<>>},
    amount : {<<>>, Str(1000001)}, recipient : {GoodRecipient},
    header : BOOLEAN ]

InitConcurrent ==
  /\ env \in [PAYMENT_ADDRESS : {PayAddr}, FUNDING_KEY : {""}]
  /\ reqs = [r \in Handlers |-> Idle]
  /\ issued = <<>>
  /\ expiries = <<>>
  /\ now = 0

\* time passes: long enough for every challenge sent so far to expire
Tick ==
  /\ now < MaxTicks * (ExpiryMinutes + 1)
  /\ now' = now + ExpiryMinutes + 1
  /\ UNCHANGED <<env, reqs, issued, expiries>>

ArriveConcurrent(r) ==
  /\ Arrive(r)
  /\ reqs'[r].in \in ConcurrentRequests

HandleRefillConcurrent(r) ==
  /\ HandleRefill(r)
  /\ reqs'[r].tx = IF reqs[r].in.header THEN SharedSubmission ELSE NoTx

NextConcurrent ==
  \/ \E r \in Handlers :
       \/ ArriveConcurrent(r)
       \/ HandleRefillConcurrent(r)
       \/ BroadcastReturn(r)
       \/ Close(r)
  \/ Tick

SpecConcurrent == InitConcurrent /\ [][NextConcurrent]_vars

----------------------------------------------------------------------------
(* Properties.  A slot at "responded" holds the request, what the handler  *)
(* did for it (deser, calls, outcome, uuids) and the response it sent.     *)

Responded(r) == reqs[r].pc = "responded"

PaidRefill(r) ==
  /\ reqs[r].in.route = "POST /refill"
  /\ reqs[r].in.header

\* the submission of slot r was deserialized into a token transfer whose
\* recipient address could be read, against a cost that is a number
ReadableTransfer(r) ==
  /\ PaidRefill(r)
  /\ reqs[r].deser = 1
  /\ reqs[r].tx.parsed
  /\ reqs[r].tx.payloadType = 0
  /\ reqs[r].tx.recipient # ""
  /\ ~reqs[r].cost.nan

\* C1: a success (200) response to a POST /refill that carries a payment is
\* sent only after the refill leg ran: a refill transfer to the request's
\* recipient was handed to the ledger, and the body carries the payment
\* txid and the refill (with its txid).
C1_SuccessOnlyAfterRefill ==
  \A r \in Slots :
    (Responded(r) /\ PaidRefill(r) /\ reqs[r].resp.status = 200)
      => /\ \E i \in DOMAIN reqs[r].calls :
              /\ reqs[r].calls[i].op = "refill"
              /\ reqs[r].calls[i].tx.recipient = reqs[r].in.recipient
         /\ reqs[r].resp.txid # ""
         /\ "refill" \in reqs[r].resp.keys

\* C3: with no funding credential bound, POST /refill never deserializes a
\* payment submission and never hands one to the ledger.
C3_NoVerificationWithoutFundingKey ==
  env.FUNDING_KEY = ""
    => \A r \in Slots : reqs[r].deser = 0 /\ reqs[r].calls = <<>>

\* C4 as stated: a submitted transfer of at least the required payment is
\* accepted whenever the ledger accepts the broadcast, and a transfer of one
\* unit less is rejected as insufficient.
C4_AmountThresholdAsStated ==
  \A r \in Slots :
    (PaidRefill(r) /\ reqs[r].deser = 1 /\ reqs[r].tx.parsed
       /\ reqs[r].tx.payloadType = 0 /\ ~reqs[r].cost.nan)
      => /\ BigLe(reqs[r].cost.v, reqs[r].tx.amount)
              => \/ reqs[r].pc = "broadcasting"
                 \/ /\ Responded(r)
                    /\ reqs[r].outcome # ""
                    /\ reqs[r].outcome = "ok" => reqs[r].resp.status = 200
         /\ reqs[r].tx.amount = BigSub(reqs[r].cost.v, BigOne)
              => /\ Responded(r)
                 /\ reqs[r].resp.status = 402
                 /\ reqs[r].resp.details = "Insufficient payment"

\* C4 (amended): for a submitted transfer whose recipient address can be
\* read from the payload: an amount equal to or above the required payment
\* passes the check and is broadcast, and the request succeeds (200, with
\* the ledger's txid) whenever the ledger accepts; an amount one unit below
\* is rejected with the insufficient-payment failure and is not broadcast.
C4_AmountThreshold ==
  \A r \in Slots :
    ReadableTransfer(r)
      => /\ BigLe(reqs[r].cost.v, reqs[r].tx.amount)
              => /\ Len(reqs[r].calls) = 1
                 /\ \/ reqs[r].pc = "broadcasting"
                    \/ /\ Responded(r)
                       /\ reqs[r].outcome # ""
                       /\ reqs[r].outcome = "ok"
                            => /\ reqs[r].resp.status = 200
                               /\ reqs[r].resp.success
                               /\ reqs[r].resp.txid # ""
         /\ reqs[r].tx.amount = BigSub(reqs[r].cost.v, BigOne)
              => /\ Responded(r)
                 /\ reqs[r].resp.status = 402
                 /\ reqs[r].resp.details = "Insufficient payment"
                 /\ reqs[r].calls = <<>>

\* an overpayment was accepted by the ledger and the request answered
C4_Witness ==
  \E r \in Slots :
    /\ ReadableTransfer(r)
    /\ Responded(r)
    /\ reqs[r].outcome = "ok"
    /\ BigLt(reqs[r].cost.v, reqs[r].tx.amount)
    /\ reqs[r].resp.status = 200

\* C5: a submission whose payload type is not 0 (a plain transfer) is
\* rejected whatever its amount, and is never handed to the ledger.
C5_NonTransferRejected ==
  \A r \in Slots :
    (PaidRefill(r) /\ reqs[r].deser = 1 /\ reqs[r].tx.parsed
       /\ reqs[r].tx.payloadType # 0)
      => /\ Responded(r)
         /\ reqs[r].resp.status = 402
         /\ reqs[r].resp.error = "Payment verification failed"
         /\ reqs[r].resp.details = "Transaction is not a STX transfer"
         /\ ~reqs[r].resp.success
         /\ reqs[r].calls = <<>>

\* a contract call carrying more than the cost was submitted and rejected
C5_Witness ==
  \E r \in Slots :
    /\ PaidRefill(r)
    /\ Responded(r)
    /\ reqs[r].tx.parsed
    /\ reqs[r].tx.payloadType = 2
    /\ ~reqs[r].cost.nan
    /\ BigLt(reqs[r].cost.v, reqs[r].tx.amount)
    /\ reqs[r].resp.status = 402

\* the exact ceiling of a * den / num, in integer arithmetic
ExactCeil(a, rate) ==
  BigDivSmall(BigAdd(BigMulInt(BigOfInt(a), rate.den), BigOfInt(rate.num - 1)),
              rate.num).q

\* two symbols that differ at most in the case of their letters
SameLetters(a, b) ==
  /\ Len(a) = Len(b)
  /\ \A i \in DOMAIN a :
       \/ a[i] = b[i]
       \/ \E k \in DOMAIN Lower : {a[i], b[i]} = {Lower[k], Upper[k]}

\* the request names asset k: in some letter case, or by giving no symbol
NamesAsset(in, k) ==
  \/ in.token = <<>> /\ k = DefaultToken
  \/ in.token # <<>> /\ SameLetters(in.token, k)

\* the request gives a symbol that is in the table in no letter case
UnknownSymbol(in) ==
  /\ in.token # <<>>
  /\ \A k \in DOMAIN SUPPORTED_TOKENS : ~SameLetters(in.token, k)

\* the body's amount is the decimal numeral of n
AmountIs(in, n) == n >= 0 /\ in.amount = Str(n)

\* the cost in the response of slot r is the exact ceiling for asset k and
\* amount a, and positive
CostIsExact(c, k, a) ==
  /\ ~c.nan
  /\ c.v = ExactCeil(a, SUPPORTED_TOKENS[k].rate)
  /\ BigLt(BigZero, c.v)

\* C6: for every supported asset and every amount within its bounds, the
\* cost quoted by GET /quote, by the challenge of POST /refill and handed to
\* the verifier is the exact ceiling of amount / rate, and positive.
C6_CostIsExactCeiling ==
  \A r \in Slots :
    \A k \in DOMAIN SUPPORTED_TOKENS :
      \A a \in BoundaryAmounts \cup {1000001} :
        (/\ NamesAsset(reqs[r].in, k)
         /\ AmountIs(reqs[r].in, a)
         /\ SUPPORTED_TOKENS[k].minAmount <= a
         /\ a <= SUPPORTED_TOKENS[k].maxAmount)
          => /\ (Responded(r) /\ reqs[r].in.route = "GET /quote")
                  => /\ reqs[r].resp.status = 200
                     /\ CostIsExact(reqs[r].resp.stxCost, k, a)
             /\ (Responded(r) /\ reqs[r].in.route = "POST /refill"
                   /\ reqs[r].in.recipient # "" /\ ~reqs[r].in.header)
                  => /\ reqs[r].resp.status = 402
                     /\ CostIsExact(reqs[r].resp.stxCost, k, a)
                     /\ reqs[r].resp.maxAmountRequired
                          = BigToString(ExactCeil(a, SUPPORTED_TOKENS[k].rate))
             /\ (PaidRefill(r) /\ reqs[r].deser = 1)
                  => CostIsExact(reqs[r].cost, k, a)

\* STX (rate 0.95) was quoted at its maxAmount
C6_Witness ==
  \E r \in Slots :
    /\ Responded(r)
    /\ reqs[r].in.route = "GET /quote"
    /\ NamesAsset(reqs[r].in, SymSTX)
    /\ AmountIs(reqs[r].in, SUPPORTED_TOKENS[SymSTX].maxAmount)
    /\ reqs[r].resp.status = 200

\* the request of slot r is not valid: the recipient is missing or no
\* address, the asset is unknown, or the amount is no number within the
\* asset's bounds
InvalidRefill(in) ==
  \/ ~WellFormedAddress(in.recipient)
  \/ UnknownSymbol(in)
  \/ \E k \in DOMAIN SUPPORTED_TOKENS :
       /\ NamesAsset(in, k)
       /\ \/ AmountOf(in.amount).nan
          \/ AmountOf(in.amount).v < SUPPORTED_TOKENS[k].minAmount
          \/ AmountOf(in.amount).v > SUPPORTED_TOKENS[k].maxAmount

\* C7: a POST /refill request with a missing or malformed recipient, an
\* unsupported asset or an amount outside the bounds ends in a 400 with no
\* side effect: no challenge, no deserialization, no broadcast, with or
\* without a payment header.
C7_InvalidRequestRejected ==
  \A r \in Slots :
    (reqs[r].in.route = "POST /refill" /\ InvalidRefill(reqs[r].in))
      => /\ reqs[r].pc \in {"received", "responded"}
         /\ reqs[r].deser = 0
         /\ reqs[r].calls = <<>>
         /\ Responded(r) => /\ reqs[r].resp.status = 400
                            /\ reqs[r].resp.nonce = <<>>

\* a valid request with no payment header
ValidUnpaid(r) ==
  /\ reqs[r].in.route = "POST /refill"
  /\ ~reqs[r].in.header
  /\ ~InvalidRefill(reqs[r].in)

\* the response of slot r is the challenge for the request's own asset and
\* amount, with the nonce drawn for it, and no ledger call was made
ChallengeForRequest(r) ==
  /\ reqs[r].resp.status = 402
  /\ "nonce" \in reqs[r].resp.keys
  /\ \E k \in DOMAIN SUPPORTED_TOKENS :
       /\ NamesAsset(reqs[r].in, k)
       /\ reqs[r].resp.maxAmountRequired
            = BigToString(ExactCeil(AmountOf(reqs[r].in.amount).v,
                                    SUPPORTED_TOKENS[k].rate))
  /\ Len(reqs[r].uuids) = 1
  /\ reqs[r].resp.nonce = RemoveHyphens(reqs[r].uuids[1])
  /\ \A i \in DOMAIN reqs[r].resp.nonce : reqs[r].resp.nonce[i] # "-"
  /\ issued # <<>> /\ issued[Len(issued)] = reqs[r].resp.nonce
  /\ reqs[r].deser = 0
  /\ reqs[r].calls = <<>>

\* C8 as stated: a valid unpaid request gets the challenge for its quote,
\* no ledger call is made, and the nonces of all challenges issued differ.
C8_ChallengeWithUniqueNonce ==
  /\ \A r \in Slots : (Responded(r) /\ ValidUnpaid(r)) => ChallengeForRequest(r)
  /\ \A i, j \in DOMAIN issued : i # j => issued[i] # issued[j]

\* C8 (amended): a valid unpaid request gets a 402 challenge whose
\* maxAmountRequired is the decimal numeral of the quote recomputed from
\* its asset and amount and whose nonce is the UUID drawn for this call
\* with its hyphens removed; no submission is deserialized and no ledger
\* call is made.
C8_ChallengeForQuote ==
  \A r \in Slots : (Responded(r) /\ ValidUnpaid(r)) => ChallengeForRequest(r)

\* a second challenge has been issued
C8_Witness ==
  \E r \in Slots :
    /\ Responded(r)
    /\ ValidUnpaid(r)
    /\ Len(issued) = 2
    /\ reqs[r].resp.status = 402

\* C9: for every supported asset, an amount one unit below minAmount or one
\* above maxAmount is rejected with an error, and the amounts minAmount and
\* maxAmount themselves are accepted (GET /quote answers the quote, POST
\* /refill goes on to the challenge or the payment check).
C9_BoundsInclusive ==
  \A r \in Slots :
    \A k \in DOMAIN SUPPORTED_TOKENS :
      (Responded(r) /\ NamesAsset(reqs[r].in, k))
        => /\ (\/ AmountIs(reqs[r].in, SUPPORTED_TOKENS[k].minAmount - 1)
               \/ AmountIs(reqs[r].in, SUPPORTED_TOKENS[k].maxAmount + 1))
                => /\ reqs[r].resp.status = 400
                   /\ reqs[r].resp.error # ""
                   /\ reqs[r].deser = 0
           /\ (\/ AmountIs(reqs[r].in, SUPPORTED_TOKENS[k].minAmount)
               \/ AmountIs(reqs[r].in, SUPPORTED_TOKENS[k].maxAmount))
                => /\ reqs[r].in.route = "GET /quote"
                        => /\ reqs[r].resp.status = 200
                           /\ reqs[r].resp.requestedAmount
                                = AmountOf(reqs[r].in.amount)
                   /\ (reqs[r].in.route = "POST /refill"
                         /\ reqs[r].in.recipient # "")
                        => reqs[r].resp.status # 400

\* USDC was quoted at exactly its maxAmount
C9_Witness ==
  \E r \in Slots :
    /\ Responded(r)
    /\ reqs[r].in.route = "GET /quote"
    /\ NamesAsset(reqs[r].in, SymUSDC)
    /\ AmountIs(reqs[r].in, SUPPORTED_TOKENS[SymUSDC].maxAmount)
    /\ reqs[r].resp.status = 200

\* the response is the unsupported-asset error listing the supported set
UnsupportedAssetError(resp) ==
  /\ resp.status = 400
  /\ resp.error = "Unsupported token"
  /\ resp.supported = TokenKeys

\* a symbol of the table given in another letter case is handled as its
\* upper-case form is
ResolvesAsUpperCase(r, k) ==
  LET upper == [reqs[r].in EXCEPT !.token = k]
  IN  /\ reqs[r].in.route = "GET /quote" => reqs[r].resp = Quote(upper)
      /\ reqs[r].in.route = "POST /refill"
           => /\ reqs[r].resp.status = 400
                   => reqs[r].resp = RefillValidation(upper)
              /\ reqs[r].resp.status # 400
                   => /\ RefillValidation(upper) = NoResp
                      /\ reqs[r].cost = RefillCost(upper)
                      /\ reqs[r].resp.token \in {k, <<>>}

\* C10 as stated: in GET /quote and in POST /refill alike, a symbol that is
\* in the table in no letter case yields the unsupported-asset error with
\* the supported set, and a symbol of the table in any letter case resolves
\* as its upper-case form.
C10_SymbolLookupAsStated ==
  \A r \in Slots :
    Responded(r)
      => /\ UnknownSymbol(reqs[r].in) => UnsupportedAssetError(reqs[r].resp)
         /\ \A k \in DOMAIN SUPPORTED_TOKENS :
              (reqs[r].in.token # <<>> /\ SameLetters(reqs[r].in.token, k))
                => ResolvesAsUpperCase(r, k)

\* C10 (amended): the same, except that POST /refill answers the
\* unsupported-asset error only for a request that carries a recipient (it
\* checks the recipient first and answers "recipient address required"
\* otherwise).
C10_SymbolLookup ==
  \A r \in Slots :
    Responded(r)
      => /\ (UnknownSymbol(reqs[r].in)
               /\ (reqs[r].in.route = "GET /quote" \/ reqs[r].in.recipient # ""))
              => UnsupportedAssetError(reqs[r].resp)
         /\ (UnknownSymbol(reqs[r].in) /\ reqs[r].in.route = "POST /refill"
               /\ reqs[r].in.recipient = "")
              => /\ reqs[r].resp.status = 400
                 /\ reqs[r].resp.error = "recipient address required"
         /\ \A k \in DOMAIN SUPPORTED_TOKENS :
              (reqs[r].in.token # <<>> /\ SameLetters(reqs[r].in.token, k))
                => ResolvesAsUpperCase(r, k)

\* a mixed-case sBtC request with a recipient was answered with a challenge
C10_Witness ==
  \E r \in Slots :
    /\ Responded(r)
    /\ reqs[r].in.route = "POST /refill"
    /\ reqs[r].in.token = <<"s", "B", "t", "C">>
    /\ reqs[r].resp.status = 402
    /\ reqs[r].resp.token = SymSBTC

\* C11: the payment is reported verified, and POST /refill answers success,
\* only for a transfer whose recipient is the service's PAYMENT_ADDRESS; a
\* submission paying another address is rejected.
C11_PaysExpectedRecipient ==
  \A r \in Slots :
    /\ reqs[r].result.success
         => reqs[r].tx.recipient = env.PAYMENT_ADDRESS
    /\ (Responded(r) /\ PaidRefill(r) /\ reqs[r].resp.status = 200)
         => reqs[r].tx.recipient = env.PAYMENT_ADDRESS
    /\ (Responded(r) /\ PaidRefill(r) /\ reqs[r].deser = 1
          /\ reqs[r].tx.parsed /\ reqs[r].tx.recipient # env.PAYMENT_ADDRESS)
         => ~reqs[r].result.success /\ reqs[r].resp.status = 402

\* C12: the ledger broadcast is attempted only for a submission that
\* parsed, has payload type 0 and has amount >= the required minimum; a
\* submission failing one of these is answered with a rejection and no
\* broadcast.
C12_BroadcastOnlyAfterChecks ==
  \A r \in Slots :
    (PaidRefill(r) /\ reqs[r].deser = 1)
      => LET passes == /\ reqs[r].tx.parsed
                       /\ reqs[r].tx.payloadType = 0
                       /\ ~reqs[r].cost.nan
                       /\ BigLe(reqs[r].cost.v, BigToNumber(reqs[r].tx.amount))
         IN  /\ reqs[r].calls # <<>> => passes
             /\ ~passes => /\ Responded(r)
                           /\ reqs[r].calls = <<>>
                           /\ ~reqs[r].result.success
                           /\ reqs[r].resp.status = 402

\* C13: a POST /refill that gets past validation (a challenge is issued or
\* the payment is verified) has a parsed amount that is an integer within
\* the bounds of its asset and a required payment that is a positive
\* integer, also when the body's amount is absent or not a number.
C13_ValidatedAmountInBounds ==
  \A r \in Slots :
    (reqs[r].in.route = "POST /refill"
       /\ (reqs[r].deser = 1 \/ reqs[r].uuids # <<>>))
      => LET token  == TokenOf(reqs[r].in.token)
             amount == AmountOf(reqs[r].in.amount)
         IN  /\ Supported(token)
             /\ ~amount.nan
             /\ SUPPORTED_TOKENS[token].minAmount <= amount.v
             /\ amount.v <= SUPPORTED_TOKENS[token].maxAmount
             /\ ~reqs[r].cost.nan
             /\ BigLt(BigZero, reqs[r].cost.v)

\* the verification of slot r's submission met one of its failures
VerificationFailed(r) ==
  \/ ~reqs[r].tx.parsed
  \/ reqs[r].tx.payloadType # 0
  \/ BigNumLt(BigToNumber(reqs[r].tx.amount), reqs[r].cost)
  \/ reqs[r].outcome \in {"error", "throw"}

\* C14: every failure of the payment verification (the submission does not
\* parse, is not a transfer, pays too little, the ledger rejects the
\* broadcast, the broadcast call throws) gives a rejected result, and POST
\* /refill answers 402 carrying that result's failure detail and does not
\* go on to the success response.
C14_FailureAnswered402 ==
  \A r \in Slots :
    (Responded(r) /\ PaidRefill(r) /\ reqs[r].deser = 1)
      => /\ VerificationFailed(r) => ~reqs[r].result.success
         /\ ~reqs[r].result.success
              => /\ reqs[r].result.error # ""
                 /\ reqs[r].resp.status = 402
                 /\ reqs[r].resp.error = "Payment verification failed"
                 /\ reqs[r].resp.details = reqs[r].result.error
                 /\ ~reqs[r].resp.success
                 /\ reqs[r].resp.refillId = <<>>
                 /\ reqs[r].uuids = <<>>
         /\ reqs[r].outcome = "error"
              => reqs[r].resp.details = "Broadcast failed"
         /\ reqs[r].outcome = "throw"
              => reqs[r].resp.details = "Payment verification failed"

\* the ledger rejected a broadcast and the request was answered 402
C14_Witness ==
  \E r \in Slots :
    /\ Responded(r) /\ PaidRefill(r)
    /\ Len(reqs[r].calls) = 1
    /\ reqs[r].outcome = "error"
    /\ reqs[r].resp.status = 402
    /\ reqs[r].resp.details = "Broadcast failed"

\* C15: handling one POST /refill deserializes the submission at most once
\* and hands it to the ledger at most once; once the ledger has answered,
\* whatever the answer, the request is answered and no second broadcast
\* was made.
C15_AtMostOneBroadcast ==
  \A r \in Slots :
    /\ reqs[r].deser <= 1
    /\ Len(reqs[r].calls) <= 1
    /\ \A i \in DOMAIN reqs[r].calls :
         /\ reqs[r].calls[i].op = "broadcast"
         /\ reqs[r].calls[i].tx = reqs[r].tx
    /\ reqs[r].outcome # ""
         => /\ Responded(r)
            /\ Len(reqs[r].calls) = 1
    /\ reqs[r].outcome \in {"error", "throw"}
         => reqs[r].resp.status = 402

\* the broadcast call threw and the request was answered after that one call
C15_Witness ==
  \E r \in Slots :
    /\ Responded(r) /\ PaidRefill(r)
    /\ reqs[r].outcome = "throw"
    /\ Len(reqs[r].calls) = 1
    /\ reqs[r].resp.status = 402

\* handler r is verifying, or has verified, the payment of a refill
Verifying(r) == PaidRefill(r) /\ reqs[r].deser = 1

\* C16: the required minimum a paid POST /refill is verified against is the
\* quote recomputed from that request's own asset and amount, and the
\* verification does not depend on the challenges sent before: the same
\* request with the same submission is broadcast or not, and answered, the
\* same way whether or not a challenge was sent before it came in and
\* whether or not that challenge has expired.
C16_VerifiedAgainstOwnQuote ==
  \A r \in Handlers :
    Verifying(r)
      => /\ reqs[r].cost = RefillCost(reqs[r].in)
         /\ reqs[r].calls # <<>>
              <=> ~VerifyBeforeBroadcast(reqs[r].tx, env.PAYMENT_ADDRESS,
                                         RefillCost(reqs[r].in)).done
         /\ \A q \in Handlers :
              (Verifying(q) /\ reqs[q].in = reqs[r].in
                 /\ reqs[q].tx = reqs[r].tx)
                => /\ reqs[q].cost = reqs[r].cost
                   /\ reqs[q].calls = reqs[r].calls
                   /\ (Responded(q) /\ Responded(r)
                         /\ reqs[q].outcome = reqs[r].outcome)
                        => /\ reqs[q].result = reqs[r].result
                           /\ reqs[q].resp.status = reqs[r].resp.status
                           /\ reqs[q].resp.details = reqs[r].resp.details

\* the same paid request succeeded twice: once before any challenge was
\* sent, once coming in after a challenge had been sent and had expired
C16_Witness ==
  \E r, q \in Handlers :
    /\ Verifying(r) /\ Responded(r) /\ reqs[r].resp.status = 200
    /\ Verifying(q) /\ Responded(q) /\ reqs[q].resp.status = 200
    /\ reqs[q].in = reqs[r].in
    /\ reqs[r].prior = 0
    /\ reqs[q].prior > 0
    /\ expiries[1] < reqs[q].at

\* what handler r's own request, own submission and the ledger's answer to
\* its own broadcast make of the verification: the calls and the result
OwnCalls(r) ==
  IF VerifyBeforeBroadcast(reqs[r].tx, env.PAYMENT_ADDRESS,
                           RefillCost(reqs[r].in)).done
  THEN <<>>
  ELSE <<[op |-> "broadcast", tx |-> reqs[r].tx]>>

OwnResult(r) ==
  IF OwnCalls(r) = <<>>
  THEN VerifyBeforeBroadcast(reqs[r].tx, env.PAYMENT_ADDRESS,
                             RefillCost(reqs[r].in)).result
  ELSE VerifyAfterBroadcast(
         reqs[r].tx, CHOOSE o \in LedgerOutcomes : o.kind = reqs[r].outcome)

\* C17: handler instances share no state.  Under every interleaving of two
\* POST /refill requests, what a handler does and answers follows from its
\* own request, its own submission and the ledger's answer to its own
\* broadcast; two requests with the same submission are each verified and
\* each handed to the ledger, neither being refused because of the other.
C17_HandlersIndependent ==
  \A r \in Handlers :
    /\ Verifying(r)
         => /\ reqs[r].calls = OwnCalls(r)
            /\ Responded(r)
                 => /\ reqs[r].result = OwnResult(r)
                    /\ reqs[r].resp.status
                         = IF OwnResult(r).success THEN 200 ELSE 402
                    /\ reqs[r].resp.details = OwnResult(r).error
                    /\ reqs[r].resp.txid = OwnResult(r).txid
    /\ (Responded(r) /\ ~reqs[r].in.header)
         => /\ reqs[r].resp.status = 402
            /\ reqs[r].resp.maxAmountRequired
                 = NumToString(RefillCost(reqs[r].in))
            /\ reqs[r].calls = <<>>
    /\ \A q \in Handlers \ {r} :
         (Verifying(r) /\ Verifying(q) /\ reqs[q].tx = reqs[r].tx
            /\ reqs[q].in = reqs[r].in)
           => Len(reqs[q].calls) = Len(reqs[r].calls)

\* two handlers have the same submission out at the ledger at once
C17_Witness ==
  \E r, q \in Handlers :
    /\ r # q
    /\ reqs[r].pc = "broadcasting" /\ reqs[q].pc = "broadcasting"
    /\ reqs[r].tx = reqs[q].tx
    /\ Len(reqs[r].calls) = 1 /\ Len(reqs[q].calls) = 1

\* C18: every result of the payment verification is well-formed: it has a
\* txid and a verified amount exactly when it is accepted, and a failure
\* reason exactly when it is rejected.
C18_ResultWellFormed ==
  \A r \in Slots :
    (Responded(r) /\ PaidRefill(r) /\ reqs[r].deser = 1)
      => LET res == reqs[r].result
         IN  /\ "success" \in res.keys
             /\ "txid" \in res.keys <=> res.success
             /\ "amount" \in res.keys <=> res.success
             /\ "error" \in res.keys <=> ~res.success
             /\ res.success => res.txid # "" /\ res.error = ""
             /\ ~res.success => res.error # "" /\ res.txid = ""

\* an accepted result, carrying the ledger's txid and the amount as the
\* Number the verifier read
C18_Witness ==
  \E r \in Slots :
    /\ Responded(r) /\ PaidRefill(r)
    /\ reqs[r].result.success
    /\ reqs[r].result.keys = {"success", "txid", "amount"}
    /\ reqs[r].result.txid = "0xpaymenttxid"
    /\ reqs[r].result.amount = BigToNumber(reqs[r].tx.amount)

\* C19: a success (200) response of POST /refill implies that, within that
\* request, the submission was broadcast exactly once, the ledger accepted
\* the broadcast, and the submission's amount was at least
\* ceil(amount / rate) for the asset and amount of the request's body.
C19_SuccessImpliesPaidQuote ==
  \A r \in Slots :
    (Responded(r) /\ reqs[r].in.route = "POST /refill"
       /\ reqs[r].resp.status = 200)
      => /\ Len(reqs[r].calls) = 1
         /\ reqs[r].outcome = "ok"
         /\ ~RefillCost(reqs[r].in).nan
         /\ BigLe(RefillCost(reqs[r].in).v, reqs[r].tx.amount)

============================================================================
